---- MODULE Spec2Model ----
(***************************************************************************)
(* The realtime command-channel client of agent/local_agent.py: the        *)
(* reconnect loop of listen_to_supabase, the heartbeat tasks it creates    *)
(* (send_heartbeat), the receive loop and the dispatch through ACTION_MAP. *)
(*                                                                         *)
(* asyncio runs one coroutine at a time and switches only at an await, so  *)
(* each action below is the code between two awaits.  The one exception is *)
(* the Action Executor call: it is synchronous and may take any time, so   *)
(* it has a state of its own in which no coroutine runs.                   *)
(***************************************************************************)
EXTENDS Integers, Sequences, FiniteSets, TLC

\* ------------------------------------------------------------------ bounds
\* Connections the supervisor may open in one run of the model.
MaxConns == 2
\* Heartbeat frames one heartbeat task may send.
MaxBeats == 2
\* Frames one session may receive.
MaxFrames == 2
MaxSegments == 4    \* dot-separated segments of a token given to the identity extractor
MaxTime == 5        \* ticks of the clock that stamps the command file
MaxWrites == 2      \* writes of the command file by the producer

ConnIds == 1..MaxConns

\* Python's None: the value of dict.get for a missing key, and the marker of
\* a key that is absent from a frame.
None == "None"

\* ------------------------------------------------------------ inbound frames
\* A frame is the text the broker sent.  json says whether json.loads accepts
\* it; the other fields are the keys the receive loop reads: event,
\* payload.status, payload.type, payload.data (present or not),
\* payload.data.action and payload.data.payload.
Frame(json, event, status, type, data, action, payload) ==
    [json |-> json, event |-> event, status |-> status, type |-> type,
     data |-> data, action |-> action, payload |-> payload]

Malformed == Frame(FALSE, None, None, None, FALSE, None, None)
ReplyOk == Frame(TRUE, "phx_reply", "ok", None, FALSE, None, None)
UnknownEvent == Frame(TRUE, "presence_state", None, None, FALSE, None, None)
\* {event: postgres_changes, payload: {type: INSERT, data: {action, payload}}}
Insert(action, payload) ==
    Frame(TRUE, "postgres_changes", None, "INSERT", TRUE, action, payload)
\* {event: postgres_changes, payload: {data: {action, payload}}}: no type key
Untyped(action, payload) ==
    Frame(TRUE, "postgres_changes", None, None, TRUE, action, payload)

Frames ==
    { Malformed, ReplyOk, UnknownEvent,
      Untyped("speak_message", "hello"),
      Insert("speak_message", "hello"),
      Insert("speak_message", None),
      Insert("play_music", "song.mp3"),
      Insert("Speak_Message", "hello") }

\* ------------------------------------------------------------ action executor
ACTION_MAP == {"change_wallpaper", "play_music", "speak_message"}

\* What running espeak can do: succeed, be missing (FileNotFoundError), exit
\* non-zero (CalledProcessError), or fail to start for another reason (any
\* other OSError, such as PermissionError).
EspeakOutcomes == {"ok", "notfound", "failed", "oserror"}

\* speak_message catches FileNotFoundError and CalledProcessError only: a
\* None message (TypeError from subprocess.run) and any other OSError escape.
speak_message(message, os) == message = None \/ os = "oserror"

\* play_music calls os.path.exists(file_path) before its try block: None
\* raises TypeError there; everything after is under "except Exception".
play_music(file_path) == file_path = None

\* change_wallpaper calls os.path.exists(image_path) before its try block.
change_wallpaper(image_path) == image_path = None

\* TRUE iff the call ACTION_MAP[action](payload) raises.
ActionRaises(action, payload, os) ==
    CASE action = "speak_message" -> speak_message(payload, os)
      [] action = "play_music" -> play_music(payload)
      [] action = "change_wallpaper" -> change_wallpaper(payload)
      [] OTHER -> TRUE                      \* ACTION_MAP[action]: KeyError

\* ------------------------------------------------------------------ tokens
\* A token is the sequence of its dot-separated segments, jwt.split('.'); a
\* string always splits into at least one.  A segment is named by what its
\* text is:
\*   hdr            base64url of {"alg": "HS256", "typ": "JWT"}
\*   sub_alice      base64url of {"sub": "alice", ...}, letters and digits only
\*   sub_bob        base64url of {"sub": "bob", ...}, letters and digits only
\*   sub_alice_url  base64url of {"sub": "alice", ...} with a '-' or '_' in it
\*   sub_empty      base64url of {"sub": "", ...}
\*   sig            base64url of the signature bytes
\*   not_b64        text that is not base64 at all
SegTexts ==
    {"hdr", "sub_alice", "sub_bob", "sub_alice_url", "sub_empty", "sig", "not_b64"}

Tokens == UNION {[1..n -> SegTexts] : n \in 1..MaxSegments}

\* The tokens the agent is started with.
ArgvTokens ==
    { <<"hdr", "sub_alice", "sig">>, <<"hdr", "sub_bob", "sig">>,
      <<"hdr", "sub_empty", "sig">>, <<"sig">> }

\* No token: sys.argv[1] not read yet.
NoToken == <<>>

\* json.loads(base64.b64decode(payload_b64 + "==").decode('utf-8')).get('sub'):
\* the value of 'sub', None where the record has none, or an exception.
\* b64decode is the standard alphabet's and drops the characters it does not
\* know, '-' and '_' among them, so what is left of such a text, like the
\* signature's bytes, is no JSON text.
Decoded(raised, sub) == [raised |-> raised, sub |-> sub]

DecodeSub(payload_b64) ==
    CASE payload_b64 = "sub_alice" -> Decoded(FALSE, "alice")
      [] payload_b64 = "sub_bob" -> Decoded(FALSE, "bob")
      [] payload_b64 = "sub_empty" -> Decoded(FALSE, "")
      [] payload_b64 = "hdr" -> Decoded(FALSE, None)
      [] payload_b64 = "sub_alice_url" -> Decoded(TRUE, None)
      [] payload_b64 = "sig" -> Decoded(TRUE, None)
      [] payload_b64 = "not_b64" -> Decoded(TRUE, None)

\* get_user_id_from_jwt: the second segment, whatever the number of segments
\* after it; any exception is logged and turned into None.
get_user_id_from_jwt(token) ==
    IF Len(token) < 2 THEN None                  \* jwt.split('.')[1]: IndexError
    ELSE LET d == DecodeSub(token[2])
         IN  IF d.raised THEN None
             ELSE IF d.sub \in {None, ""} THEN None  \* "if not user_id": ValueError
             ELSE d.sub

\* The topic of the join request.
CommandsTopic == "realtime:public:commands"

\* A topic of the token's own subject.
TopicOfSubject(token) ==
    LET sub == get_user_id_from_jwt(token)
    IN  IF sub = "alice" THEN "realtime:public:commands:alice"
        ELSE IF sub = "bob" THEN "realtime:public:commands:bob"
        ELSE CommandsTopic

\* subscribe_msg["topic"]: the same literal whatever the token.
JoinTopic(token) == CommandsTopic

\* No join request built yet.
NoMsg == [topic |-> None, access_token |-> NoToken]

\* ------------------------------------------------------------------- state
VARIABLES
    sup,             \* where listen_to_supabase is: connect, join, listen, dispatch, backoff, cancelled
    ref_counter,     \* listen_to_supabase's ref_counter
    websocket,       \* the connection of the running session, 0 when there is none
    connState,       \* per connection: unused, open, lost_ok, lost_err, released
    sent,            \* frames the client sent on the session's connection, in order
    heartbeat_task,  \* per connection: none, running, stopped, cancelled
    hb_ref,          \* per connection: send_heartbeat's own ref_counter (1 again once the task has ended)
    hbFails,         \* per connection: heartbeat sends that raised ConnectionClosed
    rx,              \* frames the session received, in order
    calls,           \* Action Executor calls the session made, in order
    termLog,         \* what the supervisor logged when the latest session or attempt ended
    frameLog,        \* what the receive loop logged for the latest frame
    user_jwt,        \* main's user_jwt, the token handed to listen_to_supabase
    subscribe_msg,   \* topic and access_token of the latest join request built
    jwt,             \* the argument of a call of get_user_id_from_jwt
    user_id,         \* what that call returned, "pending" before it has
    \* desktop_agent.py, the file-watch transport, and the file it watches
    pc,                  \* where the watch loop is; "off" when it is not run
    last_command_time,
    current_mod_time,
    played,              \* the arguments of the play_media calls, in order
    file_exists,         \* COMMAND_FILE is there
    file_mtime,          \* its modification time
    file_content,        \* its text: <<>> when empty, <<k>> the path of write k
    now,                 \* the clock that stamps modifications
    producer,            \* play_music of api/analyze.py: idle, or open between
                         \* open(COMMAND_FILE, 'w') and the end of the with block
    writes               \* writes the producer has begun

watchVars == <<pc, last_command_time, current_mod_time, played, file_exists,
               file_mtime, file_content, now, producer, writes>>

\* get_user_id_from_jwt has no caller in the program and desktop_agent.py is
\* a program of its own: neither is part of the agent's state.
others == <<jwt, user_id, watchVars>>

vars == <<sup, ref_counter, websocket, connState, sent, heartbeat_task,
          hb_ref, hbFails, rx, calls, termLog, frameLog, user_jwt,
          subscribe_msg, others>>

NoCall == jwt = NoToken /\ user_id = "pending"

\* The command file as the watch loop finds it when it starts: absent, or
\* left behind by an earlier run with the path <<0>> in it.
FileAtStart(present) ==
    /\ file_exists = present
    /\ file_mtime = (IF present THEN 1 ELSE 0)
    /\ file_content = (IF present THEN <<0>> ELSE <<>>)
    /\ now = 1
    /\ producer = "idle"
    /\ writes = 0

\* desktop_agent.py is not run.
NoWatch ==
    /\ pc = "off"
    /\ last_command_time = 0
    /\ current_mod_time = 0
    /\ played = <<>>
    /\ FileAtStart(FALSE)

\* listen_to_supabase has just been entered.
Session(token) ==
    /\ user_jwt = token
    /\ subscribe_msg = NoMsg
    /\ ref_counter = 1
    /\ websocket = 0
    /\ connState = [c \in ConnIds |-> "unused"]
    /\ sent = <<>>
    /\ heartbeat_task = [c \in ConnIds |-> "none"]
    /\ hb_ref = [c \in ConnIds |-> 1]
    /\ hbFails = [c \in ConnIds |-> 0]
    /\ rx = <<>>
    /\ calls = <<>>
    /\ termLog = "none"
    /\ frameLog = "none"

Init ==
    /\ sup = "connect"
    /\ Session(<<"hdr", "sub_alice", "sig">>)
    /\ NoCall
    /\ NoWatch

\* The process has just been started: main has not run yet.
MainInit ==
    /\ sup = "main"
    /\ Session(NoToken)
    /\ NoCall
    /\ NoWatch

\* One token is about to be given to get_user_id_from_jwt.
JwtInit ==
    /\ sup = "main"
    /\ Session(NoToken)
    /\ jwt \in Tokens
    /\ user_id = "pending"
    /\ NoWatch

\* desktop_agent.py has just been started: "last_command_time = 0".
WatchInit ==
    /\ sup = "main"
    /\ Session(NoToken)
    /\ NoCall
    /\ pc = "start"
    /\ last_command_time = 0
    /\ current_mod_time = 0
    /\ played = <<>>
    /\ \E present \in BOOLEAN : FileAtStart(present)

\* ------------------------------------------------------- the receive loop body
\* One Action Executor call, as the call log records it.
Call(action, payload, raised) ==
    [action |-> action, payload |-> payload, raised |-> raised]

\* A dispatcher that invokes the capability twice for one command.
DispatchTwice(action, payload, os) ==
    <<Call(action, payload, ActionRaises(action, payload, os)),
      Call(action, payload, ActionRaises(action, payload, os))>>

\* ACTION_MAP[action](payload): one synchronous call.
Dispatch(action, payload, os) ==
    <<Call(action, payload, ActionRaises(action, payload, os))>>

\* What the body of "async for message_str in websocket" does with one frame:
\* the calls it makes, whether an exception leaves the loop, and what it logs.
Outcome(made, raised, logged) ==
    [calls |-> made, raised |-> raised, logged |-> logged]

\* message.get("event") == "phx_reply" and
\* message.get("payload", {}).get("status") == "ok"
IsReplyOk(f) == f.event = "phx_reply" /\ f.status = "ok"

\* A loop that takes database changes only once the join has been acknowledged.
IsChangeAfterAck(f) ==
    /\ f.event = "postgres_changes"
    /\ \E i \in 1..Len(rx) : IsReplyOk(rx[i])

\* message.get("event") == "postgres_changes"
IsChange(f) == f.event = "postgres_changes"

\* A lookup that ignores the case of the action name.
InActionMapAnyCase(action) ==
    (IF action = "Speak_Message" THEN "speak_message" ELSE action) \in ACTION_MAP

\* action in ACTION_MAP
InActionMap(action) == action \in ACTION_MAP

HandleFrame(f, os) ==
    LET replied == IF IsReplyOk(f) THEN "subscribed" ELSE "none"
    IN  IF ~f.json
        THEN Outcome(<<>>, TRUE, "none")         \* json.loads raises JSONDecodeError
        ELSE IF ~IsChange(f)
        THEN Outcome(<<>>, FALSE, replied)       \* phx_reply ok is logged, the rest ignored
        ELSE IF f.type = None
        THEN Outcome(<<>>, TRUE, replied)        \* message["payload"]["type"]: KeyError
        ELSE IF f.type # "INSERT"
        THEN Outcome(<<>>, FALSE, replied)
        ELSE IF ~f.data
        THEN Outcome(<<>>, TRUE, replied)        \* message["payload"]["data"]: KeyError
        ELSE IF InActionMap(f.action)
        THEN LET made == Dispatch(f.action, f.payload, os)
             IN  Outcome(made, \E i \in 1..Len(made) : made[i].raised, "command")
        ELSE Outcome(<<>>, FALSE, "unknown_action")  \* "Unknown action received" warning

\* ------------------------------------------------------------ the supervisor
\* The connection the next successful websockets.connect creates.
NewConn == Cardinality({c \in ConnIds : connState[c] # "unused"}) + 1

\* A supervisor that leaves the session without closing its connection.
LeakConnection(c) == connState

\* Leaving "async with websockets.connect(...)": the connection is closed.
Release(c) == [connState EXCEPT ![c] = "released"]

\* A supervisor that returns when a session or an attempt has ended.
GiveUp == "returned"

\* Where the supervisor goes when a session or a connection attempt has ended:
\* to "await asyncio.sleep(5)", and from there round the "while True" loop.
AfterSession == "backoff"

\* heartbeat_task.cancel() on the task of connection c.
CancelHeartbeat(c) ==
    [heartbeat_task EXCEPT ![c] = IF @ = "running" THEN "cancelled" ELSE @]

\* An exception leaves the "async with" block: the heartbeat task is left as
\* it is (line 208 is skipped), the connection is closed, the except clause
\* logs and the loop goes on to the backoff sleep.
ExitByException(c, logged) ==
    /\ connState' = Release(c)
    /\ websocket' = 0
    /\ sup' = AfterSession
    /\ termLog' = logged
    /\ UNCHANGED heartbeat_task

\* A supervisor that starts the heartbeat task as soon as it is connected.
StartAtConnect == [heartbeat_task EXCEPT ![NewConn] = "running"]

\* Between websockets.connect and the join nothing is started: create_task
\* comes after "await websocket.send".
TasksAtConnect == heartbeat_task

\* websockets.connect: the connection opens, or the attempt raises (OSError,
\* InvalidStatus, a timeout), which "except Exception" logs.
ConnectOk ==
    /\ sup = "connect"
    /\ NewConn <= MaxConns
    /\ connState' = [connState EXCEPT ![NewConn] = "open"]
    /\ websocket' = NewConn
    /\ sup' = "join"
    /\ termLog' = "none"
    /\ heartbeat_task' = TasksAtConnect
    /\ UNCHANGED <<ref_counter, sent, hb_ref, hbFails, rx, calls, frameLog>>
    /\ UNCHANGED <<user_jwt, subscribe_msg, others>>

ConnectFail ==
    /\ sup = "connect"
    /\ sup' = AfterSession
    /\ termLog' = "error"
    /\ UNCHANGED <<ref_counter, websocket, connState, sent, heartbeat_task,
                   hb_ref, hbFails, rx, calls, frameLog>>
    /\ UNCHANGED <<user_jwt, subscribe_msg, others>>

Connect == ConnectOk \/ ConnectFail

\* The ref of the join request.
JoinRef == ref_counter

\* "await websocket.send(subscribe_msg)", then ref_counter += 1 and
\* create_task(send_heartbeat(websocket)).  A connection already lost makes
\* send raise ConnectionClosed: no increment, no heartbeat task.
SendJoin ==
    /\ sup = "join"
    /\ subscribe_msg' = [topic |-> JoinTopic(user_jwt), access_token |-> user_jwt]
    /\ IF connState[websocket] = "open"
       THEN /\ sent' = Append(sent, [event |-> "phx_join", ref |-> JoinRef])
            /\ ref_counter' = ref_counter + 1
            /\ heartbeat_task' = [heartbeat_task EXCEPT ![websocket] = "running"]
            /\ sup' = "listen"
            /\ UNCHANGED <<websocket, connState, termLog>>
       ELSE /\ ExitByException(websocket, "closed")
            /\ UNCHANGED <<sent, ref_counter>>
    /\ UNCHANGED <<hb_ref, hbFails, rx, calls, frameLog, user_jwt, others>>

\* One iteration of "async for message_str in websocket", up to the point
\* where the body has finished or has entered ACTION_MAP[action](payload).
\* The call is logged in calls as it starts, with the way it will end.
Receive ==
    /\ sup = "listen"
    /\ connState[websocket] = "open"
    /\ Len(rx) < MaxFrames
    /\ \E f \in Frames, os \in EspeakOutcomes :
          LET out == HandleFrame(f, os)
          IN  /\ rx' = Append(rx, f)
              /\ calls' = calls \o out.calls
              /\ frameLog' = out.logged
              /\ IF out.calls # <<>>
                 THEN /\ sup' = "dispatch"
                      /\ UNCHANGED <<websocket, connState, heartbeat_task, termLog>>
                 ELSE IF out.raised
                 THEN ExitByException(websocket, "error")
                 ELSE UNCHANGED <<sup, websocket, connState, heartbeat_task, termLog>>
    /\ UNCHANGED <<ref_counter, sent, hb_ref, hbFails>>
    /\ UNCHANGED <<user_jwt, subscribe_msg, others>>

\* ACTION_MAP[action](payload) returns or raises.  Until it does the event
\* loop is blocked in it: subprocess.run waits for the child without a timeout.
DispatchReturn ==
    /\ sup = "dispatch"
    /\ IF calls[Len(calls)].raised
       THEN ExitByException(websocket, "error")
       ELSE /\ sup' = "listen"
            /\ UNCHANGED <<websocket, connState, heartbeat_task, termLog>>
    /\ UNCHANGED <<ref_counter, sent, hb_ref, hbFails, rx, calls, frameLog>>
    /\ UNCHANGED <<user_jwt, subscribe_msg, others>>

\* The broker or the network ends the connection: a close with code 1000 or
\* 1001 (lost_ok), or any other close or a transport failure (lost_err).
PeerClose ==
    /\ websocket # 0
    /\ connState[websocket] = "open"
    /\ \E how \in {"lost_ok", "lost_err"} :
          connState' = [connState EXCEPT ![websocket] = how]
    /\ UNCHANGED <<sup, ref_counter, websocket, sent, heartbeat_task, hb_ref,
                   hbFails, rx, calls, termLog, frameLog>>
    /\ UNCHANGED <<user_jwt, subscribe_msg, others>>

\* The receive loop meets the end of the connection.  After a clean close the
\* iteration just ends: heartbeat_task.cancel() runs, the "async with" block is
\* left and nothing is logged.  Otherwise the iteration raises
\* ConnectionClosedError, which "except ConnectionClosed" logs.
ObserveClose ==
    /\ sup = "listen"
    /\ connState[websocket] \in {"lost_ok", "lost_err"}
    /\ IF connState[websocket] = "lost_ok"
       THEN /\ heartbeat_task' = CancelHeartbeat(websocket)
            /\ hb_ref' = [hb_ref EXCEPT ![websocket] = 1]
            /\ connState' = Release(websocket)
            /\ websocket' = 0
            /\ sup' = AfterSession
            /\ termLog' = "none"
       ELSE ExitByException(websocket, "closed") /\ UNCHANGED hb_ref
    /\ UNCHANGED <<ref_counter, sent, hbFails, rx, calls, frameLog>>
    /\ UNCHANGED <<user_jwt, subscribe_msg, others>>

\* "await asyncio.sleep(5)" returns; the loop starts its next iteration.  The
\* logs sent, rx, calls and frameLog are those of one session: they start
\* empty again here.
BackoffDone ==
    /\ sup = "backoff"
    /\ sup' = "connect"
    /\ sent' = <<>>
    /\ rx' = <<>>
    /\ calls' = <<>>
    /\ frameLog' = "none"
    /\ UNCHANGED <<ref_counter, websocket, connState, heartbeat_task,
                   hb_ref, hbFails, termLog>>
    /\ UNCHANGED <<user_jwt, subscribe_msg, others>>

\* --------------------------------------------------------------- heartbeats
\* A heartbeat loop that goes round again after a failed send.
KeepBeating == "running"

\* What the heartbeat loop does after a send raised ConnectionClosed: break.
AfterFailedSend == "stopped"

\* The ref of the next heartbeat frame on connection c.
HeartbeatRef(c) == hb_ref[c]

\* One iteration of send_heartbeat's loop on connection c: the send, the
\* increment and the 30 s sleep, or the failed send that ends the task (and
\* with it the task's local ref_counter).  The task runs on the event loop,
\* so not while the receive loop is inside an Action Executor call.
Heartbeat(c) ==
    /\ heartbeat_task[c] = "running"
    /\ sup # "dispatch"
    /\ IF connState[c] = "open"
       THEN /\ hb_ref[c] <= MaxBeats
            /\ sent' = Append(sent, [event |-> "heartbeat", ref |-> HeartbeatRef(c)])
            /\ hb_ref' = [hb_ref EXCEPT ![c] = @ + 1]
            /\ UNCHANGED <<heartbeat_task, hbFails>>
       ELSE /\ hbFails' = [hbFails EXCEPT ![c] = @ + 1]
            /\ heartbeat_task' = [heartbeat_task EXCEPT ![c] = AfterFailedSend]
            /\ hb_ref' = [hb_ref EXCEPT ![c] = 1]
            /\ UNCHANGED sent
    /\ UNCHANGED <<sup, ref_counter, websocket, connState, rx, calls, termLog,
                   frameLog>>
    /\ UNCHANGED <<user_jwt, subscribe_msg, others>>

\* ------------------------------------------------------------- cancellation
\* An exit that leaves the heartbeat tasks as they are.
LeaveTasks == heartbeat_task

\* asyncio.run, on its way out, cancels every task still on the loop.
CancelAllTasks ==
    [c \in ConnIds |->
        IF heartbeat_task[c] = "running" THEN "cancelled" ELSE heartbeat_task[c]]

\* KeyboardInterrupt inside asyncio.run: it cancels listen_to_supabase, whose
\* "async with" block closes the connection on the way out, and then cancels
\* every task that is left.
Cancel ==
    /\ sup \in {"connect", "join", "listen", "dispatch", "backoff"}
    /\ sup' = "cancelled"
    /\ connState' = IF websocket # 0 THEN Release(websocket) ELSE connState
    /\ websocket' = 0
    /\ heartbeat_task' = CancelAllTasks
    /\ hb_ref' = [c \in ConnIds |-> 1]
    /\ UNCHANGED <<ref_counter, sent, hbFails, rx, calls, termLog, frameLog>>
    /\ UNCHANGED <<user_jwt, subscribe_msg, others>>

\* ------------------------------------------------------------------- startup
\* main up to asyncio.run: the two checks that return, then user_jwt =
\* sys.argv[1] and the entry into listen_to_supabase.  The token is not
\* inspected.
main ==
    /\ sup = "main"
    /\ \E env_set \in BOOLEAN,
          argv \in {<<"local_agent.py">>} \cup {<<"local_agent.py", t>> : t \in ArgvTokens} :
          IF ~env_set \/ Len(argv) < 2
          THEN sup' = "returned" /\ UNCHANGED user_jwt
          ELSE sup' = "connect" /\ user_jwt' = argv[2]
    /\ UNCHANGED <<ref_counter, websocket, connState, sent, heartbeat_task, hb_ref,
                   hbFails, rx, calls, termLog, frameLog, subscribe_msg, others>>

\* A call of get_user_id_from_jwt on its own.
Extract ==
    /\ jwt # NoToken
    /\ user_id = "pending"
    /\ user_id' = get_user_id_from_jwt(jwt)
    /\ UNCHANGED <<sup, ref_counter, websocket, connState, sent, heartbeat_task,
                   hb_ref, hbFails, rx, calls, termLog, frameLog, user_jwt,
                   subscribe_msg, jwt, watchVars>>

\* ------------------------------------------------- the file-watch transport
agentVars == <<sup, ref_counter, websocket, connState, sent, heartbeat_task,
               hb_ref, hbFails, rx, calls, termLog, frameLog, user_jwt,
               subscribe_msg, jwt, user_id>>

\* Time passes.
Tick ==
    /\ now < MaxTime
    /\ now' = now + 1
    /\ UNCHANGED <<agentVars, pc, last_command_time, current_mod_time, played,
                   file_exists, file_mtime, file_content, producer, writes>>

\* play_music of api/analyze.py, "open(COMMAND_FILE, 'w')": the file is
\* created or truncated, and stamped.
ProducerOpen ==
    /\ producer = "idle"
    /\ writes < MaxWrites
    /\ writes' = writes + 1
    /\ producer' = "open"
    /\ file_exists' = TRUE
    /\ file_content' = <<>>
    /\ file_mtime' = now
    /\ UNCHANGED <<agentVars, pc, last_command_time, current_mod_time, played, now>>

\* "f.write(file_path)" and the end of the with block: the path reaches the
\* file, which is stamped again.  A file unlinked since it was opened is not
\* brought back by the write.
ProducerClose ==
    /\ producer = "open"
    /\ producer' = "idle"
    /\ IF file_exists
       THEN file_content' = <<writes>> /\ file_mtime' = now
       ELSE UNCHANGED <<file_content, file_mtime>>
    /\ UNCHANGED <<agentVars, pc, last_command_time, current_mod_time, played,
                   file_exists, now, writes>>

\* Something else removes the command file (it lives in /tmp).
DeleteFile ==
    /\ file_exists
    /\ file_exists' = FALSE
    /\ file_content' = <<>>
    /\ file_mtime' = 0
    /\ UNCHANGED <<agentVars, pc, last_command_time, current_mod_time, played,
                   now, producer, writes>>

\* "if os.path.exists(COMMAND_FILE):" before the loop.
StartExists ==
    /\ pc = "start"
    /\ pc' = IF file_exists THEN "start_getmtime" ELSE "exists"
    /\ UNCHANGED <<agentVars, last_command_time, current_mod_time, played,
                   file_exists, file_mtime, file_content, now, producer, writes>>

\* "last_command_time = os.path.getmtime(COMMAND_FILE)" before the loop, and
\* outside the try: FileNotFoundError ends the program.
StartGetmtime ==
    /\ pc = "start_getmtime"
    /\ IF file_exists
       THEN last_command_time' = file_mtime /\ pc' = "exists"
       ELSE pc' = "crashed" /\ UNCHANGED last_command_time
    /\ UNCHANGED <<agentVars, current_mod_time, played, file_exists, file_mtime,
                   file_content, now, producer, writes>>

\* "if os.path.exists(COMMAND_FILE):" in the loop; without the file the loop
\* sleeps 2 s and asks again.
PollExists ==
    /\ pc = "exists"
    /\ pc' = IF file_exists THEN "getmtime" ELSE "exists"
    /\ UNCHANGED <<agentVars, last_command_time, current_mod_time, played,
                   file_exists, file_mtime, file_content, now, producer, writes>>

\* A comparison that also takes an unchanged modification time.
NotOlder(mod_time, last_time) == mod_time >= last_time

\* current_mod_time > last_command_time
Newer(mod_time, last_time) == mod_time > last_time

\* A loop whose try has no clause for FileNotFoundError.
NotFoundEndsLoop == "crashed"

\* "except FileNotFoundError: time.sleep(2)": the loop polls again.
AfterNotFound == "exists"

\* "current_mod_time = os.path.getmtime(COMMAND_FILE)" and the comparison.
\* FileNotFoundError is caught: sleep 2 s and poll again.
PollGetmtime ==
    /\ pc = "getmtime"
    /\ IF file_exists
       THEN /\ current_mod_time' = file_mtime
            /\ pc' = IF Newer(file_mtime, last_command_time) THEN "read" ELSE "exists"
       ELSE /\ pc' = AfterNotFound
            /\ UNCHANGED current_mod_time
    /\ UNCHANGED <<agentVars, last_command_time, played, file_exists, file_mtime,
                   file_content, now, producer, writes>>

\* A loop that remembers the time of the poll.
ClockTime == now

\* What line 50 remembers: the modification time the poll read at line 44.
ObservedTime == current_mod_time

\* open and read().strip(), play_media if the text is not empty, and
\* "last_command_time = current_mod_time"; then the 2 s sleep.
\* FileNotFoundError from open is caught before anything is assigned.
PollRead ==
    /\ pc = "read"
    /\ IF file_exists
       THEN /\ played' = IF file_content # <<>> THEN Append(played, file_content)
                         ELSE played
            /\ last_command_time' = ObservedTime
            /\ pc' = "exists"
       ELSE /\ pc' = AfterNotFound
            /\ UNCHANGED <<played, last_command_time>>
    /\ UNCHANGED <<agentVars, current_mod_time, file_exists, file_mtime,
                   file_content, now, producer, writes>>

WatchNext ==
    \/ Tick
    \/ ProducerOpen
    \/ ProducerClose
    \/ DeleteFile
    \/ StartExists
    \/ StartGetmtime
    \/ PollExists
    \/ PollGetmtime
    \/ PollRead

\* The watch loop, the producer and the clock.
WatchSpec == WatchInit /\ [][WatchNext]_vars

\* The producer where every modification gets a stamp later than the one the
\* file has: the clock has moved since.  A write is begun only if the clock
\* leaves room for the stamp of its end.
StrictOpen == ProducerOpen /\ now > file_mtime /\ now < MaxTime

StrictClose == ProducerClose /\ now > file_mtime

StrictNext ==
    \/ Tick
    \/ StrictOpen
    \/ StrictClose
    \/ StartExists
    \/ StartGetmtime
    \/ PollExists
    \/ PollGetmtime
    \/ PollRead

\* The watch loop with strictly advancing stamps and a file nobody removes.
\* The loop is scheduled (each of its steps returns and time.sleep ends), time
\* passes, and the producer's with block, once entered, is left; whether the
\* producer writes at all is up to it.
StrictWatchSpec ==
    /\ WatchInit
    /\ [][StrictNext]_vars
    /\ WF_vars(Tick)
    /\ WF_vars(StrictClose)
    /\ WF_vars(StartExists)
    /\ WF_vars(StartGetmtime)
    /\ WF_vars(PollExists)
    /\ WF_vars(PollGetmtime)
    /\ WF_vars(PollRead)

Next ==
    \/ Connect
    \/ SendJoin
    \/ Receive
    \/ DispatchReturn
    \/ PeerClose
    \/ ObserveClose
    \/ BackoffDone
    \/ \E c \in ConnIds : Heartbeat(c)
    \/ Cancel

Spec == Init /\ [][Next]_vars

\* The whole process, from its start.
MainNext == main \/ Next

MainSpec == MainInit /\ [][MainNext]_vars

\* The identity extractor applied to one token.
JwtSpec == JwtInit /\ [][Extract]_vars

\* asyncio.sleep(5) returns and websockets.connect returns or raises (its
\* open_timeout bounds it): the loop is not stuck in either.
FairSpec == Spec /\ WF_vars(BackoffDone) /\ WF_vars(Connect)

TypeOK ==
    /\ sup \in {"main", "returned", "connect", "join", "listen", "dispatch",
                 "backoff", "cancelled"}
    /\ user_jwt \in ArgvTokens \cup {NoToken}
    /\ subscribe_msg \in {NoMsg} \cup [topic : {CommandsTopic}, access_token : ArgvTokens]
    /\ jwt \in Tokens \cup {NoToken}
    /\ user_id \in {"pending", None, "alice", "bob"}
    /\ pc \in {"off", "start", "start_getmtime", "exists", "getmtime", "read", "crashed"}
    /\ last_command_time \in 0..MaxTime
    /\ current_mod_time \in 0..MaxTime
    /\ played \in Seq({<<k>> : k \in 0..MaxWrites})
    /\ file_exists \in BOOLEAN
    /\ file_mtime \in 0..MaxTime
    /\ file_content \in {<<>>} \cup {<<k>> : k \in 0..MaxWrites}
    /\ now \in 1..MaxTime
    /\ producer \in {"idle", "open"}
    /\ writes \in 0..MaxWrites
    /\ ref_counter \in 1..(MaxConns + 1)
    /\ websocket \in 0..MaxConns
    /\ connState \in [ConnIds -> {"unused", "open", "lost_ok", "lost_err", "released"}]
    /\ heartbeat_task \in [ConnIds -> {"none", "running", "stopped", "cancelled"}]
    /\ hb_ref \in [ConnIds -> 1..(MaxBeats + 1)]
    /\ Len(sent) <= MaxBeats + 1
    /\ hbFails \in [ConnIds -> 0..1]
    /\ Len(rx) <= MaxFrames
    /\ Len(calls) <= MaxFrames
    /\ termLog \in {"none", "closed", "error"}
    /\ frameLog \in {"none", "subscribed", "command", "unknown_action"}

\* ================================================================== claims
\* The session is running: the supervisor is in the receive loop of an open
\* connection.
SessionRunning ==
    /\ sup = "listen"
    /\ websocket # 0
    /\ connState[websocket] = "open"

\* This step received frame f / made one more Action Executor call.
Received(f) == rx' = Append(rx, f)
ReceivedOne == Len(rx') = Len(rx) + 1
CalledOne == Len(calls') = Len(calls) + 1

\* The session that took this step is the same session, still running, after it.
StaysRunning ==
    /\ sup' \in {"listen", "dispatch"}
    /\ websocket' = websocket
    /\ connState' = connState

\* C1: an Action Executor call that raises while a command is dispatched
\* leaves the session alive: the connection stays open and the receive loop
\* goes on.
Returns == sup = "dispatch" /\ sup' \notin {"dispatch", "cancelled"}

C1_FailingActionKeepsSession ==
    [][(Returns /\ calls[Len(calls)].raised) => StaysRunning]_vars

\* C2: a frame that is not JSON, that carries an unknown event, or that
\* carries a known event with fields missing is dropped: no call is made, the
\* connection is not closed and the same session goes on.
Unusable(f) ==
    \/ ~f.json
    \/ f.event \notin {"phx_reply", "postgres_changes"}
    \/ f.event = "postgres_changes" /\ (f.type = None \/ ~f.data \/ f.action = None)

C2_BadFrameDropped ==
    [][(ReceivedOne /\ Unusable(rx'[Len(rx')])) => (calls' = calls /\ StaysRunning)]_vars

\* C3: on every connection the first frame sent is a phx_join whose ref is 1.
C3_JoinRefIsOne ==
    sent # <<>> => sent[1] = [event |-> "phx_join", ref |-> 1]

\* C4: a connection that has been released has no heartbeat task still alive,
\* whatever ended its session.
C4_NoHeartbeatAfterRelease ==
    \A c \in ConnIds : connState[c] = "released" => heartbeat_task[c] # "running"

\* C5: the Action Executor calls of a session are exactly the command events
\* it received whose action is in ACTION_MAP, each once, with the event's
\* payload, in arrival order.  A command event is a frame the receive loop
\* decodes as one: event postgres_changes, payload.type INSERT, payload.data.
IsCommandEvent(f) ==
    f.json /\ f.event = "postgres_changes" /\ f.type = "INSERT" /\ f.data

Known(f) == IsCommandEvent(f) /\ f.action \in ACTION_MAP

Wanted(fs) ==
    LET known == SelectSeq(fs, Known)
    IN  [i \in 1..Len(known) |-> <<known[i].action, known[i].payload>>]

Made(cs) == [i \in 1..Len(cs) |-> <<cs[i].action, cs[i].payload>>]

C5_DispatchOnceInOrder == Made(calls) = Wanted(rx)

C5_Witness ==
    /\ Len(calls) = 2
    /\ calls[1].action # calls[2].action
    /\ SessionRunning

\* C6: receiving {event: postgres_changes, payload: {data: {action:
\* speak_message, payload: hello}}} makes exactly one call speak_message(hello)
\* and leaves the session running.
C6_UntypedFrameDispatched ==
    [][Received(Untyped("speak_message", "hello")) =>
          /\ CalledOne
          /\ calls'[Len(calls')].action = "speak_message"
          /\ calls'[Len(calls')].payload = "hello"
          /\ StaysRunning]_vars

\* C7: whenever the supervisor is neither in a session nor in a connection
\* attempt, and has not been cancelled, it goes on to another connection
\* attempt: it never returns and never stays stopped, after any number of
\* failures.
C7_AlwaysRetries ==
    (sup \notin {"connect", "join", "listen", "dispatch", "cancelled"})
        ~> (sup = "connect" \/ sup = "cancelled")

C7_Witness ==
    /\ sup = "connect"
    /\ termLog = "error"
    /\ \E c \in ConnIds : connState[c] = "released"

\* C8: at most one connection is held at any time; a connection is opened
\* only by the supervisor's connection attempt, with every earlier connection
\* released; an attempt is reached only through a completed backoff wait, and
\* the step that opens a connection ends the attempt.
Held == {c \in ConnIds : connState[c] \in {"open", "lost_ok", "lost_err"}}

Opens == \E c \in ConnIds : connState[c] = "unused" /\ connState'[c] # "unused"

C8_OneConnectionAtATime ==
    /\ [](Cardinality(Held) <= 1)
    /\ [][Opens => /\ sup = "connect"
                   /\ Held = {}
                   /\ sup' # "connect"]_vars
    /\ [][(sup' = "connect" /\ sup # "connect") => sup = "backoff"]_vars

C8_Witness ==
    /\ Cardinality(Held) = 1
    /\ \E c \in ConnIds : connState[c] = "released"

\* C9: the refs of the frames sent on one connection, the join request and
\* the heartbeats, are strictly increasing: no two carry the same ref.
C9_RefsStrictlyIncrease ==
    \A i, j \in 1..Len(sent) : i < j => sent[i].ref < sent[j].ref

\* C10: on a connection that has closed a heartbeat task attempts at most one
\* send; that failed send ends the task, and the step changes nothing of the
\* session or the supervisor loop.
FailedSend == \E c \in ConnIds : hbFails'[c] > hbFails[c]

C10_HeartbeatStopsAfterClose ==
    /\ [](\A c \in ConnIds :
              /\ hbFails[c] <= 1
              /\ hbFails[c] = 1 => heartbeat_task[c] = "stopped")
    /\ [][FailedSend => UNCHANGED <<sup, websocket, connState, ref_counter,
                                    rx, calls, termLog>>]_vars

C10_Witness ==
    \E c \in ConnIds :
        /\ hbFails[c] = 1
        /\ heartbeat_task[c] = "stopped"
        /\ connState[c] = "released"

\* C11: for as long as a session is alive another heartbeat send always
\* eventually occurs, also while frames arrive and while a command is being
\* dispatched.  Necessary for that: whenever the session's connection is open
\* and its heartbeat task is running, the task's next send can be taken.
SessionAlive ==
    /\ sup \in {"listen", "dispatch"}
    /\ websocket # 0
    /\ connState[websocket] = "open"

C11_HeartbeatNeverBlocked ==
    (SessionAlive /\ heartbeat_task[websocket] = "running"
                  /\ hb_ref[websocket] <= MaxBeats)
        => ENABLED Heartbeat(websocket)

\* C12: a command event whose action is not one of the three names of
\* ACTION_MAP, compared case-sensitively, logs the unknown-action warning,
\* makes no Action Executor call, and leaves the session listening for the
\* next frame.
UnknownAction(f) == IsCommandEvent(f) /\ f.action \notin ACTION_MAP

C12_UnknownActionWarned ==
    [][(ReceivedOne /\ UnknownAction(rx'[Len(rx')]))
          => /\ calls' = calls
             /\ frameLog' = "unknown_action"
             /\ StaysRunning
             /\ sup' = "listen"]_vars

C12_Witness ==
    /\ SessionRunning
    /\ rx = <<Insert("Speak_Message", "hello"), Insert("speak_message", "hello")>>
    /\ Len(calls) = 1

\* C13: the join acknowledgement is advisory.  A known command is dispatched
\* once, with its own action and payload, whether or not an acknowledgement
\* was received before it; an acknowledgement with status ok is logged as a
\* successful subscription, makes no call and leaves the session running.
C13_AckIsAdvisory ==
    /\ [][(ReceivedOne /\ Known(rx'[Len(rx')]))
             => /\ CalledOne
                /\ calls'[Len(calls')].action = rx'[Len(rx')].action
                /\ calls'[Len(calls')].payload = rx'[Len(rx')].payload]_vars
    /\ [][Received(ReplyOk)
             => /\ frameLog' = "subscribed"
                /\ calls' = calls
                /\ StaysRunning]_vars

C13_Witness ==
    /\ SessionRunning
    /\ rx = <<Insert("speak_message", "hello"), ReplyOk>>
    /\ Len(calls) = 1
    /\ frameLog = "subscribed"

\* C14: the file-watch transport never dispatches the same written content
\* twice: whatever the interleaving of the watch loop with the producer, each
\* write of the producer leads to at most one play_media call with its path.
Dispatches(k) == {i \in 1..Len(played) : played[i] = <<k>>}

C14_EachWriteDispatchedOnce ==
    \A k \in 1..MaxWrites : Cardinality(Dispatches(k)) <= 1

\* C15: every step that takes a subscribed session to the backoff wait logs
\* the cause of the disconnection.
C15_DisconnectCauseLogged ==
    [][(sup \in {"listen", "dispatch"} /\ sup' = "backoff")
          => termLog' \in {"closed", "error"}]_vars

\* C19: the supervisor leaves its loop only by cancellation, and once it is
\* cancelled no connection is held, no heartbeat task runs, and no connection
\* is opened any more.
C19_ExitOnlyByCancel ==
    /\ [](sup \in {"connect", "join", "listen", "dispatch", "backoff", "cancelled"})
    /\ [](sup = "cancelled"
             => /\ Held = {}
                /\ \A c \in ConnIds : heartbeat_task[c] # "running")
    /\ [][sup = "cancelled" => (sup' = "cancelled" /\ connState' = connState)]_vars

\* Cancelled inside an Action Executor call that was going to raise: the
\* session was in flight, and no session end had been logged.
C19_Witness ==
    /\ sup = "cancelled"
    /\ calls # <<>>
    /\ calls[Len(calls)].raised
    /\ termLog = "none"
    /\ \E c \in ConnIds : connState[c] = "released" /\ heartbeat_task[c] = "cancelled"

\* C16: a token from which no subject can be extracted is fatal at startup:
\* no connection is ever opened by a process whose token has none.
C16_NoConnectionWithoutIdentity ==
    (\E c \in ConnIds : connState[c] # "unused")
        => get_user_id_from_jwt(user_jwt) # None

\* C17: get_user_id_from_jwt returns the embedded subject of every token of
\* exactly three segments whose middle segment holds a record with a
\* non-empty subject, and fails (None) on every other token.
\* The subject a segment's text embeds, read as the base64url it is.
EmbeddedSub(text) ==
    CASE text \in {"sub_alice", "sub_alice_url"} -> "alice"
      [] text = "sub_bob" -> "bob"
      [] text = "sub_empty" -> ""
      [] OTHER -> None

WellFormed(token) == Len(token) = 3 /\ EmbeddedSub(token[2]) \notin {None, ""}

C17_SubjectOfThreeSegments ==
    user_id # "pending"
        => user_id = IF WellFormed(jwt) THEN EmbeddedSub(jwt[2]) ELSE None

C20_DispatchOnlyOnNewerMtime ==
    /\ [][Len(played') > Len(played)
             => /\ pc = "read"
                /\ current_mod_time > last_command_time
                /\ last_command_time' = current_mod_time]_vars
    /\ [][last_command_time' >= last_command_time]_vars
    /\ [](\A i \in 1..Len(played) : played[i] # <<0>>)
    /\ [][(pc = "getmtime" /\ file_exists /\ file_mtime = last_command_time)
             => (played' = played /\ pc' # "read")]_vars

\* A write was dispatched, and the poll after it found the file unchanged.
C20_Witness ==
    /\ Len(played) = 1
    /\ file_exists
    /\ file_content = played[1]
    /\ last_command_time = file_mtime
    /\ current_mod_time = file_mtime
    /\ last_command_time > 1
    /\ pc = "exists"

\* C21: the watch loop tolerates the command file not existing.  A step of
\* the loop that finds no file, at the existence check, at the read of the
\* modification time or at the read of the content, calls play_media for
\* nothing, leaves last_command_time as it was and goes on to the next poll;
\* and the loop, once entered, never ends.
InLoop == pc \in {"exists", "getmtime", "read"}

FindsNoFile == InLoop /\ ~file_exists /\ pc' # pc

C21_MissingFileTolerated ==
    /\ [][FindsNoFile => /\ played' = played
                         /\ last_command_time' = last_command_time
                         /\ pc' = "exists"]_vars
    /\ [][InLoop => InLoop']_vars

\* The file went away between the read of its modification time and the read
\* of its content: the loop is back at the existence check with the newer
\* time it had read not taken over, and nothing played.
C21_Witness ==
    /\ pc = "exists"
    /\ ~file_exists
    /\ current_mod_time > last_command_time
    /\ played = <<>>

\* C22: at any time at most one heartbeat task is alive, whatever ended the
\* earlier sessions.
Alive == {c \in ConnIds : heartbeat_task[c] = "running"}

C22_AtMostOneHeartbeatTask == Cardinality(Alive) <= 1

\* C23: on every connection the join request is the first frame sent.  No
\* heartbeat is in the connection's log without a phx_join before it; a
\* heartbeat task is started only by the step that sends the join on the
\* current connection; and a step that leaves the join without having sent
\* it leaves that connection without a heartbeat task.
JoinSent ==
    /\ Len(sent') = Len(sent) + 1
    /\ sent'[Len(sent')].event = "phx_join"

C23_JoinIsFirstFrame ==
    /\ [](\A i \in 1..Len(sent) :
             sent[i].event = "heartbeat"
                => \E j \in 1..(i - 1) : sent[j].event = "phx_join")
    /\ [][\A c \in ConnIds :
             (heartbeat_task[c] # "running" /\ heartbeat_task'[c] = "running")
                => (c = websocket /\ JoinSent)]_vars
    /\ [][(sup = "join" /\ sent' = sent)
             => heartbeat_task'[websocket] = "none"]_vars

\* The join failed on the first connection, which has no heartbeat task;
\* on the second the join was sent and a heartbeat after it.
C23_Witness ==
    /\ connState[1] = "released"
    /\ heartbeat_task[1] = "none"
    /\ websocket = 2
    /\ Len(sent) = 2
    /\ sent[1].event = "phx_join"
    /\ sent[2].event = "heartbeat"

\* C24 as stated: with strictly advancing stamps and a fairly scheduled loop,
\* whenever the producer has completed write k, then eventually play_media is
\* called with its path, or the producer writes again.
Played(k) == \E i \in 1..Len(played) : played[i] = <<k>>

C24_CompletedWriteDispatched ==
    \A k \in 1..MaxWrites :
        (file_content = <<k>> /\ producer = "idle") ~> (Played(k) \/ writes > k)

\* C24, amended: with strictly advancing stamps, a file that is not removed
\* and a fairly scheduled loop, a write k that the producer completes after
\* the loop has taken its startup reading (the write is still open when the
\* loop is polling) is eventually dispatched with its path, or the producer
\* writes again.
C24_WriteDuringLoopDispatched ==
    \A k \in 1..MaxWrites :
        (InLoop /\ producer = "open" /\ writes = k) ~> (Played(k) \/ writes > k)

\* The second write, completed while the loop was polling, is the one the
\* file holds and the last one played.
C24_Witness ==
    /\ InLoop
    /\ producer = "idle"
    /\ writes = 2
    /\ file_content = <<2>>
    /\ played # <<>>
    /\ played[Len(played)] = <<2>>

====
